---- MODULE Spec2Model ----
(***************************************************************************)
(* Skip-gram word2vec notebooks: the data-preparation pipeline of the      *)
(* training notebook (subsampling, get_target, get_batches, the            *)
(* save-vocabulary cell) and the nearest-neighbour lookup of the restore   *)
(* notebook.  Python lists are 0-based; the sequences below are 1-based,   *)
(* so list element k is sequence element k+1.                              *)
(***************************************************************************)
EXTENDS Integers, Sequences, FiniteSets, TLC

VARIABLES
    \* ---- get_batches / get_target
    train_words,    \* the list passed to get_batches
    batch_size,     \* get_batches parameter
    window_size,    \* get_batches parameter
    words,          \* get_batches' local `words` (the truncated prefix)
    bpc,            \* position of the generator
    idx,            \* outer loop variable of get_batches
    batch,          \* words[idx: idx + batch_size]
    i,              \* inner loop variable of get_batches
    x,              \* center ids of the batch being built
    y,              \* context ids of the batch being built
    calls,          \* one record per get_target call of this batch: [R, ret]
    \* ---- subsampling
    int_words,      \* the list passed to subsampling
    threshold,      \* subsampling parameter, a rational [num, den]
    spc,            \* position inside subsampling
    words_count,    \* Counter(words)
    freqs,          \* word -> count/total_count, a rational [num, den]
    p_drop,         \* word -> 1 - sqrt(threshold/freqs[word]), kept as the radicand
    pos,            \* index the list comprehension is at
    out,            \* the list the comprehension has built so far
    visit,          \* the comprehension's last turn: [word, u, kept]
    \* ---- nearest-neighbour lookup
    embeddings,     \* the embedding table, one row per vocabulary id
    sample_examples,\* the query ids
    top_k,          \* number of nearest neighbours asked for
    lpc,            \* position inside the lookup cell
    sim,            \* validate(...).eval(): one row of similarities per query
    li,             \* loop variable i of the lookup cell
    nearest,        \* (-sim[i, :]).argsort()[1:top_k+1]
    lk,             \* loop variable k of the lookup cell
    log,            \* the neighbour ids put on the line being printed
    \* ---- artifacts on disk
    fs,             \* path -> contents of the file, or Absent
    vocab_to_int,   \* the training notebook's word -> id table
    int_to_vocab,   \* the training notebook's id -> word table
    tpc,            \* position in the training notebook
    save_runs,      \* how often the save-vocabulary cell has run
    epochs,         \* train(epochs=...)
    epoch,          \* loop variable of train
    written,        \* paths the training notebook has written in this run
    rpc,            \* position in the restore notebook
    dictionaries,   \* what the restore notebook unpickled
    model,          \* the hyperparameters build_model was called with
    \* ---- vocabulary
    text_words,     \* the notebook's `words`: the corpus as a list of strings
    vpc,            \* position in the lookup-table cell
    \* ---- train
    trpc,           \* position inside train
    passed,         \* names of the parameters the call passed
    print_every,    \* train(print_every=...)
    validate_every, \* train(validate_every=...)
    iteration,      \* batch counter of train
    average_loss,   \* loss accumulator of train
    batches,        \* the generator of the epoch: indices of the batches still to come
    summary,        \* the summary of the last sess.run: <<epoch, batch>>, <<>> while unbound
    table,          \* the embedding table, as the number of updates it has received
    updates,        \* the optimizer steps run so far, in order: <<epoch, batch>>
    saves,          \* the saver.save calls so far, in order: <<epoch, table>>
    recent,         \* the losses of the last print_every batches
    report,         \* what the last step printed as training loss, <<>> if nothing
    validated       \* the validations so far: [iteration, table]

batchVars == <<train_words, batch_size, window_size, words, bpc, idx, batch, i, x, y, calls>>

subVars == <<int_words, threshold, spc, words_count, freqs, p_drop, pos, out, visit>>

lookVars == <<embeddings, sample_examples, top_k, lpc, sim, li, nearest, lk, log>>

fsVars == <<fs, vocab_to_int, int_to_vocab, tpc, save_runs, epochs, epoch, written, rpc, dictionaries, model>>

vocabVars == <<text_words, vpc>>

trainVars == <<trpc, passed, print_every, validate_every, iteration, average_loss, batches,
               summary, table, updates, saves, recent, report, validated>>

vars == <<batchVars, subVars, lookVars, fsVars, vocabVars, trainVars>>

restOfBatches == <<subVars, lookVars, fsVars, vocabVars, trainVars>>
restOfSub == <<batchVars, lookVars, fsVars, vocabVars, trainVars>>
restOfLookup == <<batchVars, subVars, fsVars, vocabVars, trainVars>>
restOfFiles == <<batchVars, subVars, lookVars, vocabVars, trainVars>>

\* ------------------------------------------------------------------ bounds
MaxLen == 4
MaxToken == 1
MaxBatch == 3
MaxWindow == 2
ThresholdDen == 4
DrawDen == 4
MaxVocab == 3
MaxSamples == 2
MaxTopK == 2
MaxEpochs == 2
MaxSaveRuns == 2
MaxPrint == 3
MaxValidate == 2

Tokens == 0..MaxToken

\* ------------------------------------------------------- Python list helpers
Max(a, b) == IF a >= b THEN a ELSE b
Min(a, b) == IF a <= b THEN a ELSE b

SetOf(s) == {s[k] : k \in DOMAIN s}

SeqsUpTo(S, n) == UNION {[1..m -> S] : m \in 0..n}

\* a slice bound as Python normalises it: a negative bound counts from the
\* end, and every bound is clamped into 0..len
PyBound(n, k) == IF k < 0 THEN Max(n + k, 0) ELSE Min(k, n)

\* s[a:b]
Slice(s, a, b) ==
    LET lo == PyBound(Len(s), a)
        hi == PyBound(Len(s), b)
    IN  IF lo >= hi THEN <<>> ELSE SubSeq(s, lo + 1, hi)

\* [v] * n
Repeat(v, n) == [k \in 1..n |-> v]

\* list(S) for a set S: every element once, in an order the set decides
ListOf(S) == {q \in [1..Cardinality(S) -> S] : SetOf(q) = S}

\* ------------------------------------------------------------- get_target
\* np.random.randint(0, window_size+1): a radius of 0 can be drawn
RadiusDraws_from_zero(C) == 0..C

\* np.random.randint(1, window_size+1): the upper end is exclusive
RadiusDraws(C) == 1..C

\* get_target with the center's own position left inside the window
get_target_keeps_center(ws, ix, R) ==
    LET start == Max(0, ix - R)
        stop  == ix + R
    IN  ListOf(SetOf(Slice(ws, start, stop + 1)))

\* get_target with the window running one position too far to the right
get_target_long_window(ws, ix, R) ==
    LET start == Max(0, ix - R)
        stop  == ix + R + 1
    IN  ListOf(SetOf(Slice(ws, start, ix) \o Slice(ws, ix + 1, stop + 1)))

\* get_target without the set(): the window's tokens as they stand
get_target_no_set(ws, ix, R) ==
    LET start == Max(0, ix - R)
        stop  == ix + R
    IN  {Slice(ws, start, ix) \o Slice(ws, ix + 1, stop + 1)}

\* the lists get_target can return once the radius R is drawn
get_target(ws, ix, R) ==
    LET start == Max(0, ix - R)
        stop  == ix + R
        target_words == SetOf(Slice(ws, start, ix) \o Slice(ws, ix + 1, stop + 1))
    IN  ListOf(target_words)

\* ------------------------------------------------------------ get_batches
\* get_batches without the truncation: the trailing words stay in the list
BatchesStart_keeps_tail ==
    /\ bpc = "start"
    /\ words' = train_words
    /\ idx' = 0
    /\ bpc' = "for_idx"
    /\ UNCHANGED <<train_words, batch_size, window_size, batch, i, x, y, calls>>
    /\ UNCHANGED restOfBatches

\* first next(): n_batches, the truncation of words, the first idx of range()
BatchesStart ==
    /\ bpc = "start"
    /\ LET n_batches == Len(train_words) \div batch_size
       IN  words' = Slice(train_words, 0, n_batches * batch_size)
    /\ idx' = 0
    /\ bpc' = "for_idx"
    /\ UNCHANGED <<train_words, batch_size, window_size, batch, i, x, y, calls>>
    /\ UNCHANGED restOfBatches

\* for idx in range(0, len(words), batch_size): one more batch
BatchBegin ==
    /\ bpc = "for_idx"
    /\ idx < Len(words)
    /\ x' = <<>>
    /\ y' = <<>>
    /\ calls' = <<>>
    /\ batch' = Slice(words, idx, idx + batch_size)
    /\ i' = 0
    /\ bpc' = "for_i"
    /\ UNCHANGED <<train_words, batch_size, window_size, words, idx>>
    /\ UNCHANGED restOfBatches

\* one turn of `for i in range(len(batch))`
Center ==
    /\ bpc = "for_i"
    /\ i < Len(batch)
    /\ \E R \in RadiusDraws(window_size) :
         \E batch_y \in get_target(batch, i, R) :
            LET batch_x == batch[i + 1]
            IN  /\ y' = y \o batch_y
                /\ x' = x \o Repeat(batch_x, Len(batch_y))
                /\ calls' = Append(calls, [R |-> R, ret |-> batch_y])
    /\ i' = i + 1
    /\ UNCHANGED <<train_words, batch_size, window_size, words, bpc, idx, batch>>
    /\ UNCHANGED restOfBatches

\* yield x, y
Yield ==
    /\ bpc = "for_i"
    /\ i = Len(batch)
    /\ bpc' = "yielded"
    /\ UNCHANGED <<train_words, batch_size, window_size, words, idx, batch, i, x, y, calls>>
    /\ UNCHANGED restOfBatches

\* the consumer asks for the next batch: range() advances
Resume ==
    /\ bpc = "yielded"
    /\ idx' = idx + batch_size
    /\ bpc' = "for_idx"
    /\ UNCHANGED <<train_words, batch_size, window_size, words, batch, i, x, y, calls>>
    /\ UNCHANGED restOfBatches

\* range() is exhausted: the generator returns
Exhausted ==
    /\ bpc = "for_idx"
    /\ idx >= Len(words)
    /\ bpc' = "done"
    /\ UNCHANGED <<train_words, batch_size, window_size, words, idx, batch, i, x, y, calls>>
    /\ UNCHANGED restOfBatches

BatchesIdle ==
    /\ train_words = <<>>
    /\ batch_size = 1
    /\ window_size = 1
    /\ words = <<>>
    /\ bpc = "idle"
    /\ idx = 0
    /\ batch = <<>>
    /\ i = 0
    /\ x = <<>>
    /\ y = <<>>
    /\ calls = <<>>

SubIdle ==
    /\ int_words = <<>>
    /\ threshold = [num |-> 1, den |-> 1]
    /\ spc = "idle"
    /\ words_count = <<>>
    /\ freqs = <<>>
    /\ p_drop = <<>>
    /\ pos = 0
    /\ out = <<>>
    /\ visit = <<>>

LookupIdle ==
    /\ embeddings = <<>>
    /\ sample_examples = <<>>
    /\ top_k = 1
    /\ lpc = "idle"
    /\ sim = <<>>
    /\ li = 0
    /\ nearest = <<>>
    /\ lk = 0
    /\ log = <<>>

FilesIdle ==
    /\ fs = <<>>
    /\ vocab_to_int = <<>>
    /\ int_to_vocab = <<>>
    /\ tpc = "idle"
    /\ save_runs = 0
    /\ epochs = 1
    /\ epoch = 1
    /\ written = {}
    /\ rpc = "idle"
    /\ dictionaries = <<>>
    /\ model = <<>>

VocabIdle ==
    /\ text_words = <<>>
    /\ vpc = "idle"

TrainIdle ==
    /\ trpc = "idle"
    /\ passed = {}
    /\ print_every = 1
    /\ validate_every = 1
    /\ iteration = 1
    /\ average_loss = 0
    /\ batches = <<>>
    /\ summary = <<>>
    /\ table = 0
    /\ updates = <<>>
    /\ saves = <<>>
    /\ recent = <<>>
    /\ report = <<>>
    /\ validated = <<>>

InitBatches ==
    /\ VocabIdle
    /\ TrainIdle
    /\ SubIdle
    /\ LookupIdle
    /\ FilesIdle
    /\ train_words \in SeqsUpTo(Tokens, MaxLen)
    /\ batch_size \in 1..MaxBatch
    /\ window_size \in 1..MaxWindow
    /\ words = train_words
    /\ bpc = "start"
    /\ idx = 0
    /\ batch = <<>>
    /\ i = 0
    /\ x = <<>>
    /\ y = <<>>
    /\ calls = <<>>

NextBatches ==
    \/ BatchesStart
    \/ BatchBegin
    \/ Center
    \/ Yield
    \/ Resume
    \/ Exhausted

SpecBatches == InitBatches /\ [][NextBatches]_vars

\* ------------------------------------------- properties of the batch generator
\* positions within radius R of position p in a list of length n, p excluded
WindowPositions(n, p, R) == (Max(0, p - R)..Min(n - 1, p + R)) \ {p}

Distinct(s) == \A a, b \in DOMAIN s : a # b => s[a] # s[b]

RECURSIVE PairsBefore(_)
\* number of pairs emitted for the centers before the c-th of this batch
PairsBefore(c) == IF c <= 1 THEN 0 ELSE PairsBefore(c - 1) + Len(calls[c - 1].ret)

\* the center (1-based batch position) the k-th pair of the batch belongs to
CenterOf(k) ==
    CHOOSE c \in DOMAIN calls : PairsBefore(c) < k /\ k <= PairsBefore(c + 1)

\* C1 as stated: no yielded pair has a center id equal to its context id.
C1_NoEqualPair ==
    bpc = "yielded" => \A k \in DOMAIN x : x[k] # y[k]

\* C1 amended: a yielded pair has center id = context id only when the same
\* token id stands at another batch position within the center's drawn radius;
\* the center's own position never supplies its context.
C1_EqualPairOnlyFromRepeat ==
    bpc = "yielded" =>
        \A k \in DOMAIN x :
            x[k] = y[k] =>
                LET c == CenterOf(k)
                IN  \E j \in WindowPositions(Len(batch), c - 1, calls[c].R) :
                        batch[j + 1] = x[k]

\* C1 witness: a yielded batch holding a pair of equal ids and a pair of different ids
C1_Witness ==
    /\ bpc = "yielded"
    /\ \E k \in DOMAIN x : x[k] = y[k]
    /\ \E k \in DOMAIN x : x[k] # y[k]

\* C3: the contexts of the center at sequence position p are exactly the
\* distinct tokens at sequence positions [max(0,p-R), min(N-1,p+R)] \ {p} of
\* the whole token sequence, also next to a batch boundary.
C3_WindowClippedAtSequenceOnly ==
    bpc \in {"for_i", "yielded"} =>
        \A c \in DOMAIN calls :
            LET p == idx + (c - 1)
            IN  SetOf(calls[c].ret) =
                    {train_words[j + 1] :
                        j \in WindowPositions(Len(train_words), p, calls[c].R)}

\* C4: every get_target call draws 1 <= R <= C and returns only tokens found at
\* indices [max(0,idx-R), min(N-1,idx+R)] \ {idx} of the list it was given.
C4_TargetInsideWindow ==
    bpc \in {"for_i", "yielded"} =>
        \A c \in DOMAIN calls :
            /\ calls[c].R \in 1..window_size
            /\ SetOf(calls[c].ret) \subseteq
                    {batch[j + 1] : j \in WindowPositions(Len(batch), c - 1, calls[c].R)}

\* C4 witness: a call with the largest radius whose window is cut at both
\* ends of the list and still returns two tokens
C4_Witness ==
    /\ bpc = "for_i"
    /\ \E c \in DOMAIN calls :
          /\ calls[c].R = window_size
          /\ (c - 1) - calls[c].R < 0
          /\ (c - 1) + calls[c].R > Len(batch) - 1
          /\ Len(calls[c].ret) >= 2

\* C10: in a yielded batch len(x) = len(y), the pairs are grouped by center in
\* batch-position order, each center id is repeated once per element of its
\* target list, and the context ids of one center are pairwise distinct.
C10_AlignedGroupedDistinct ==
    bpc = "yielded" =>
        /\ Len(x) = Len(y)
        /\ Len(calls) = Len(batch)
        /\ Len(x) = PairsBefore(Len(batch) + 1)
        /\ \A c \in DOMAIN calls :
              LET lo == PairsBefore(c) + 1
                  hi == PairsBefore(c + 1)
              IN  /\ SubSeq(y, lo, hi) = calls[c].ret
                  /\ \A k \in lo..hi : x[k] = batch[c]
                  /\ Distinct(calls[c].ret)
                  /\ hi - lo + 1 =
                        Cardinality({batch[j + 1] :
                            j \in WindowPositions(Len(batch), c - 1, calls[c].R)})

\* C10 witness: a yielded batch of three centers or more, with fan-outs of two
\* and of one, in which set() has removed a repeated token
C10_Witness ==
    /\ bpc = "yielded"
    /\ Len(batch) >= 3
    /\ \E c \in DOMAIN calls :
          /\ Len(calls[c].ret) >= 2
          /\ \E c2 \in DOMAIN calls : c2 > c /\ Len(calls[c2].ret) = 1
    /\ \E c \in DOMAIN calls :
          Len(calls[c].ret) <
              Cardinality(WindowPositions(Len(batch), c - 1, calls[c].R))

\* C11: no call fails at a window boundary: the center of a one-token batch
\* gets zero pairs, the centers at the first and the last batch position get
\* exactly the neighbours that exist on their one side, every center of a
\* batch of two tokens or more gets at least one pair, and the loop can
\* always take its next turn.
C11_BoundaryYieldsFewerPairs ==
    bpc \in {"for_i", "yielded"} =>
        /\ \A c \in DOMAIN calls :
              LET n == Len(batch)
                  R == calls[c].R
                  ret == SetOf(calls[c].ret)
              IN  /\ (n = 1 => calls[c].ret = <<>>)
                  /\ (n >= 2 => Len(calls[c].ret) >= 1)
                  /\ (c = 1 => ret = {batch[j] : j \in 2..Min(n, 1 + R)})
                  /\ (c = n => ret = {batch[j] : j \in Max(1, n - R)..(n - 1)})
        /\ (bpc = "for_i" /\ i < Len(batch) => ENABLED Center)

\* C11 witness: a one-token batch yielded with no pair at all
C11_Witness ==
    /\ bpc = "yielded"
    /\ Len(batch) = 1
    /\ Len(calls) = 1
    /\ x = <<>>
    /\ y = <<>>

\* C18: get_batches yields floor(N/B) batches; batch j holds exactly the
\* sequence positions [j*B, (j+1)*B), each of them a center once and in order,
\* and every center and context id of the batch is a token of those
\* positions; the trailing N mod B tokens are in no batch.
C18_BatchesPartitionPrefix ==
    LET N == Len(train_words)
        B == batch_size
        full == (N \div B) * B
    IN  /\ bpc \in {"for_idx", "for_i", "yielded", "done"} =>
              /\ idx % B = 0
              /\ idx <= full
              /\ words = SubSeq(train_words, 1, full)
        /\ bpc = "done" => idx = full
        /\ bpc \in {"for_i", "yielded"} =>
              /\ idx + B <= full
              /\ batch = SubSeq(train_words, idx + 1, idx + B)
        /\ bpc = "yielded" =>
              /\ Len(calls) = B
              /\ \A k \in DOMAIN x : x[k] = train_words[idx + CenterOf(k)]
              /\ SetOf(y) \subseteq {train_words[q] : q \in (idx + 1)..(idx + B)}

\* C18 witness: a batch yielded from a list whose trailing token, left over by
\* the truncation, is an id that no position of the batch holds
C18_Witness ==
    /\ bpc = "yielded"
    /\ batch_size >= 2
    /\ Len(train_words) % batch_size # 0
    /\ train_words[Len(train_words)] \notin SetOf(batch)
    /\ y # <<>>

\* ------------------------------------------------------------- subsampling
\* the thresholds tried: the default 1e-5 and the multiples of 1/ThresholdDen
DefaultThreshold == [num |-> 1, den |-> 100000]

Thresholds ==
    {DefaultThreshold} \cup {[num |-> n, den |-> ThresholdDen] : n \in 1..ThresholdDen}

\* random.random(): a value of [0, 1), here on the grid of multiples of 1/DrawDen
RandomDraws == {[num |-> k, den |-> DrawDen] : k \in 0..(DrawDen - 1)}

\* Counter(words): word -> number of occurrences
Counter(ws) == [w \in SetOf(ws) |-> Cardinality({k \in DOMAIN ws : ws[k] = w})]

\* {word: count/total_count}
Freqs(wc, total_count) ==
    [word \in DOMAIN wc |-> [num |-> wc[word], den |-> total_count]]

\* 1 - sqrt(freq/threshold): the quotient upside down
PDrop_inverted(t, f) == [rnum |-> f.num * t.den, rden |-> f.den * t.num]

\* 1 - sqrt(threshold/freq), represented by the radicand threshold/freq
PDrop(t, f) == [rnum |-> t.num * f.den, rden |-> t.den * f.num]

\* p < u for p = 1 - sqrt(rnum/rden) and u = num/den in [0, 1):
\* 1 - u > 0, so p < u  <=>  rnum/rden > (1 - u)^2
PDropLess(p, u) ==
    p.rnum * u.den * u.den > (u.den - u.num) * (u.den - u.num) * p.rden

\* the comprehension putting a retained word in front of the list
Collect_in_front(acc, word, keep) == IF keep THEN <<word>> \o acc ELSE acc

\* [word for word in words if ...]: a retained word goes to the end of the list
Collect(acc, word, keep) == IF keep THEN Append(acc, word) ELSE acc

\* words_count, total_count, freqs, p_drop
SubCall ==
    /\ spc = "call"
    /\ LET wc == Counter(int_words)
           total_count == Len(int_words)
           fr == Freqs(wc, total_count)
       IN  /\ words_count' = wc
           /\ freqs' = fr
           /\ p_drop' = [word \in DOMAIN wc |-> PDrop(threshold, fr[word])]
    /\ pos' = 0
    /\ out' = <<>>
    /\ spc' = "filter"
    /\ UNCHANGED <<int_words, threshold, visit>>
    /\ UNCHANGED restOfSub

\* one word of the comprehension: p_drop[word] < random.random()
SubVisit ==
    /\ spc = "filter"
    /\ pos < Len(int_words)
    /\ \E u \in RandomDraws :
          LET word == int_words[pos + 1]
              keep == PDropLess(p_drop[word], u)
          IN  /\ out' = Collect(out, word, keep)
              /\ visit' = [word |-> word, u |-> u, kept |-> keep]
    /\ pos' = pos + 1
    /\ UNCHANGED <<int_words, threshold, spc, words_count, freqs, p_drop>>
    /\ UNCHANGED restOfSub

\* the comprehension is through: return
SubReturn ==
    /\ spc = "filter"
    /\ pos = Len(int_words)
    /\ spc' = "done"
    /\ UNCHANGED <<int_words, threshold, words_count, freqs, p_drop, pos, out, visit>>
    /\ UNCHANGED restOfSub

InitSub ==
    /\ VocabIdle
    /\ TrainIdle
    /\ BatchesIdle
    /\ LookupIdle
    /\ FilesIdle
    /\ int_words \in SeqsUpTo(Tokens, MaxLen)
    /\ threshold \in Thresholds
    /\ spc = "call"
    /\ words_count = <<>>
    /\ freqs = <<>>
    /\ p_drop = <<>>
    /\ pos = 0
    /\ out = <<>>
    /\ visit = <<>>

NextSub ==
    \/ SubCall
    \/ SubVisit
    \/ SubReturn

SpecSub == InitSub /\ [][NextSub]_vars

\* ---------------------------------------------------- properties of subsampling
RECURSIVE IsSubsequence(_, _)
\* a is b with some elements left out
IsSubsequence(a, b) ==
    IF a = <<>> THEN TRUE
    ELSE IF b = <<>> THEN FALSE
    ELSE IF Head(a) = Head(b) THEN IsSubsequence(Tail(a), Tail(b))
    ELSE IsSubsequence(a, Tail(b))

Occurrences(ws, w) == Cardinality({k \in DOMAIN ws : ws[k] = w})

\* pa >= pb for two drop probabilities 1 - sqrt(q): qa <= qb
PDropGeq(pa, pb) == pa.rnum * pb.rden <= pb.rnum * pa.rden

\* u < p for p = 1 - sqrt(rnum/rden): rnum/rden < (1 - u)^2
DrawBelow(u, p) ==
    p.rnum * u.den * u.den < (u.den - u.num) * (u.den - u.num) * p.rden

\* C7: whatever the draws, the list built so far is a subsequence of the words
\* visited so far (original order, distinct positions), never longer than the
\* input; an empty input returns an empty list.
C7_OutputIsSubsequence ==
    spc \in {"filter", "done"} =>
        /\ IsSubsequence(out, SubSeq(int_words, 1, pos))
        /\ Len(out) <= pos
        /\ pos <= Len(int_words)
        /\ (spc = "done" => pos = Len(int_words))
        /\ (spc = "done" /\ int_words = <<>> => out = <<>>)

\* C7 witness: a finished run that dropped a word and kept two different ones
C7_Witness ==
    /\ spc = "done"
    /\ Len(out) >= 2
    /\ Len(out) < Len(int_words)
    /\ \E a, b \in DOMAIN out : out[a] # out[b]

\* C8: with the threshold fixed, a token that occurs at least as often as
\* another has a drop probability at least as high; the counts are those of
\* the integer ids of the list passed in.
C8_DropProbabilityMonotone ==
    spc \in {"filter", "done"} =>
        /\ DOMAIN p_drop = SetOf(int_words)
        /\ \A a, b \in DOMAIN p_drop :
              Occurrences(int_words, a) >= Occurrences(int_words, b)
                  => PDropGeq(p_drop[a], p_drop[b])

\* C8 witness: two tokens of different counts, the more frequent one with the
\* strictly higher drop probability
C8_Witness ==
    /\ spc = "filter"
    /\ \E a, b \in DOMAIN p_drop :
          /\ Occurrences(int_words, a) > Occurrences(int_words, b)
          /\ ~PDropGeq(p_drop[b], p_drop[a])

\* C9: an occurrence is dropped exactly when its draw u is below its drop
\* probability p (u < p), and retained otherwise, in particular when u = p.
C9_DroppedIffDrawBelow ==
    (spc \in {"filter", "done"} /\ pos > 0) =>
        (visit.kept <=> ~DrawBelow(visit.u, p_drop[visit.word]))

\* ------------------------------------------------- nearest-neighbour lookup
\* rows an embedding table is made of (no all-zero row: its norm would be 0);
\* <<1, 0>> and <<2, 0>> point the same way
RowValues == {<<1, 0>>, <<2, 0>>, <<-1, 1>>}

RECURSIVE Dot(_, _)
\* sum of the products of the components
Dot(a, b) == IF a = <<>> THEN 0 ELSE Head(a) * Head(b) + Dot(Tail(a), Tail(b))

\* validate(embeddings, int_codes): row r holds, for every vocabulary id, the
\* cosine a.b / (|a| |b|) of query r's row and that id's row, kept as
\* [num, sq] standing for num / sqrt(sq)
Validate(emb, int_codes) ==
    [r \in DOMAIN int_codes |->
        [j \in DOMAIN emb |->
            LET a == emb[int_codes[r] + 1]
                b == emb[j]
            IN  [num |-> Dot(a, b), sq |-> Dot(a, a) * Dot(b, b)]]]

SignedSquare(n) == IF n >= 0 THEN n * n ELSE -(n * n)

\* s1 < s2 for two similarities num / sqrt(sq)
SimLess(s1, s2) == SignedSquare(s1.num) * s2.sq < SignedSquare(s2.num) * s1.sq

\* (-row).argsort(): the orders of the ids 0..n-1 that put the negated
\* similarities in ascending order; ids of equal similarity come in an order
\* the sort decides
Argsort(row) ==
    {q \in [1..Len(row) -> 0..(Len(row) - 1)] :
        /\ \A a, b \in DOMAIN q : a # b => q[a] # q[b]
        /\ \A a, b \in DOMAIN q : a < b => ~SimLess(row[q[a] + 1], row[q[b] + 1])}

\* sim = validate(model.embeddings, sample_examples).eval()
LookupValidate ==
    /\ lpc = "start"
    /\ sim' = Validate(embeddings, sample_examples)
    /\ li' = 0
    /\ lpc' = "for_i"
    /\ UNCHANGED <<embeddings, sample_examples, top_k, nearest, lk, log>>
    /\ UNCHANGED restOfLookup

\* for i in range(sample_size): nearest = (-sim[i, :]).argsort()[1:top_k+1]
LookupNearest ==
    /\ lpc = "for_i"
    /\ li < Len(sample_examples)
    /\ \E order \in Argsort(sim[li + 1]) :
          nearest' = Slice(order, 1, top_k + 1)
    /\ log' = <<>>
    /\ lk' = 0
    /\ lpc' = "for_k"
    /\ UNCHANGED <<embeddings, sample_examples, top_k, sim, li>>
    /\ UNCHANGED restOfLookup

\* for k in range(top_k): close_word = int_to_vocab[nearest[k]]
LookupWord ==
    /\ lpc = "for_k"
    /\ lk < top_k
    /\ lk < Len(nearest)
    /\ log' = Append(log, nearest[lk + 1])
    /\ lk' = lk + 1
    /\ UNCHANGED <<embeddings, sample_examples, top_k, lpc, sim, li, nearest>>
    /\ UNCHANGED restOfLookup

\* nearest[k] with k past the end of nearest
LookupIndexError ==
    /\ lpc = "for_k"
    /\ lk < top_k
    /\ lk >= Len(nearest)
    /\ lpc' = "IndexError"
    /\ UNCHANGED <<embeddings, sample_examples, top_k, sim, li, nearest, lk, log>>
    /\ UNCHANGED restOfLookup

\* print(log), next query
LookupPrint ==
    /\ lpc = "for_k"
    /\ lk = top_k
    /\ li' = li + 1
    /\ lpc' = "for_i"
    /\ UNCHANGED <<embeddings, sample_examples, top_k, sim, nearest, lk, log>>
    /\ UNCHANGED restOfLookup

\* the queries are through
LookupDone ==
    /\ lpc = "for_i"
    /\ li = Len(sample_examples)
    /\ lpc' = "done"
    /\ UNCHANGED <<embeddings, sample_examples, top_k, sim, li, nearest, lk, log>>
    /\ UNCHANGED restOfLookup

InitLookup ==
    /\ VocabIdle
    /\ TrainIdle
    /\ BatchesIdle
    /\ SubIdle
    /\ FilesIdle
    /\ \E n \in 1..MaxVocab :
          /\ embeddings \in [1..n -> RowValues]
          /\ \E m \in 1..MaxSamples : sample_examples \in [1..m -> 0..(n - 1)]
    /\ top_k \in 1..MaxTopK
    /\ lpc = "start"
    /\ sim = <<>>
    /\ li = 0
    /\ nearest = <<>>
    /\ lk = 0
    /\ log = <<>>

NextLookup ==
    \/ LookupValidate
    \/ LookupNearest
    \/ LookupWord
    \/ LookupIndexError
    \/ LookupPrint
    \/ LookupDone

SpecLookup == InitLookup /\ [][NextLookup]_vars

\* ------------------------------------------------- properties of the lookup
\* C2: whatever the table (rows of equal similarity included), the neighbour
\* list (-sim[i]).argsort()[1:top_k+1] never contains the query id itself.
C2_QueryNotAmongNearest ==
    lpc = "for_k" => \A k \in DOMAIN nearest : nearest[k] # sample_examples[li + 1]

\* C15: for each query the neighbour list holds exactly top_k distinct ids, in
\* non-increasing order of similarity to the query, and every id left out
\* (other than the query) is no more similar than the last one listed; for
\* every vocabulary size, one with fewer than top_k+1 ids included.
C15_TopKSortedAndComplete ==
    lpc = "for_k" =>
        LET q == sample_examples[li + 1]
            row == sim[li + 1]
        IN  /\ Len(nearest) = top_k
            /\ Distinct(nearest)
            /\ \A a, b \in DOMAIN nearest :
                  a < b => ~SimLess(row[nearest[a] + 1], row[nearest[b] + 1])
            /\ \A id \in 0..(Len(embeddings) - 1) :
                  (id # q /\ id \notin SetOf(nearest))
                      => ~SimLess(row[nearest[top_k] + 1], row[id + 1])

\* ------------------------------------------------------ artifacts on disk
\* hyperparameters of the training notebook
embed_dim == 300
num_sampled == 100

\* the arguments of the build_model call of the training notebook
build_embed_dim == 50
build_num_sampled == 100

\* no file at the path
Absent == [absent |-> TRUE]
\* a file left behind by something else than this run
Stale == [stale |-> TRUE]

\* 'model_data_{}_{}.cpkt'.format(embed_dim, num_sampled)
dictionary_path ==
    "model_data_" \o ToString(embed_dim) \o "_" \o ToString(num_sampled) \o ".cpkt"

\* './checkpoints/word2vec_{}_{}_{}.ckpt'.format(embed_dim, num_sampled, epoch)
CheckpointPath(e) ==
    "./checkpoints/word2vec_" \o ToString(embed_dim) \o "_" \o ToString(num_sampled)
        \o "_" \o ToString(e) \o ".ckpt"

\* the path the restore notebook opens for the pickled vocabulary
restore_dictionary_path == "dictionary.cpkt"

\* the path the restore notebook hands to saver.restore
model_path == "./checkpoints/word2vec_1.ckpt"

Paths ==
    {dictionary_path, restore_dictionary_path, model_path}
        \cup {CheckpointPath(e) : e \in 1..MaxEpochs}

\* the lookup tables of a small corpus: every assignment of dense ids to its words
Vocabularies ==
    {[v2i |-> ("the" :> 0 @@ "of" :> 1), i2v |-> (0 :> "the" @@ 1 :> "of")],
     [v2i |-> ("the" :> 1 @@ "of" :> 0), i2v |-> (0 :> "of" @@ 1 :> "the")]}

\* the dict the save-vocabulary cell pickles
to_save ==
    [vocab_to_int |-> vocab_to_int,
     int_to_vocab |-> int_to_vocab,
     embed_dim |-> embed_dim,
     num_sampled |-> num_sampled]

\* the save-vocabulary cell: remove the file if it is there, else write it
SaveVocabulary ==
    /\ tpc = "save"
    /\ save_runs < MaxSaveRuns
    /\ IF fs[dictionary_path] # Absent
          THEN /\ fs' = [fs EXCEPT ![dictionary_path] = Absent]
               /\ UNCHANGED written
          ELSE /\ fs' = [fs EXCEPT ![dictionary_path] = to_save]
               /\ written' = written \cup {dictionary_path}
    /\ save_runs' = save_runs + 1
    /\ UNCHANGED <<vocab_to_int, int_to_vocab, tpc, epochs, epoch, rpc, dictionaries>>
    /\ UNCHANGED model
    /\ UNCHANGED restOfFiles

\* the build cell: build_model(graph, len(vocab_to_int), embed_dim = 50, num_sampled = 100)
BuildModel ==
    /\ tpc = "save"
    /\ save_runs >= 1
    /\ model' = [vocab_size |-> Cardinality(DOMAIN vocab_to_int),
                 embed_dim |-> build_embed_dim,
                 num_sampled |-> build_num_sampled]
    /\ tpc' = "built"
    /\ UNCHANGED <<fs, vocab_to_int, int_to_vocab, save_runs, epochs, epoch, written, rpc, dictionaries>>
    /\ UNCHANGED restOfFiles

\* the notebook goes on to train(...): for epoch in range(1, epochs+1)
TrainCall ==
    /\ tpc = "built"
    /\ epoch' = 1
    /\ tpc' = "train"
    /\ UNCHANGED <<fs, vocab_to_int, int_to_vocab, save_runs, epochs, written, rpc, dictionaries>>
    /\ UNCHANGED model
    /\ UNCHANGED restOfFiles

\* end of an epoch: saver.save(sess, <checkpoint path of the epoch>)
SaveCheckpoint ==
    /\ tpc = "train"
    /\ epoch <= epochs
    /\ fs' = [fs EXCEPT ![CheckpointPath(epoch)] = [checkpoint_of_epoch |-> epoch]]
    /\ written' = written \cup {CheckpointPath(epoch)}
    /\ epoch' = epoch + 1
    /\ UNCHANGED <<vocab_to_int, int_to_vocab, tpc, save_runs, epochs, rpc, dictionaries>>
    /\ UNCHANGED model
    /\ UNCHANGED restOfFiles

\* range(1, epochs+1) is exhausted: train returns
TrainReturn ==
    /\ tpc = "train"
    /\ epoch > epochs
    /\ tpc' = "trained"
    /\ rpc' = "start"
    /\ UNCHANGED <<fs, vocab_to_int, int_to_vocab, save_runs, epochs, epoch, written, dictionaries>>
    /\ UNCHANGED model
    /\ UNCHANGED restOfFiles

\* restore notebook: with open('dictionary.cpkt', 'rb') as f: pickle.load(f)
RestoreVocabulary ==
    /\ rpc = "start"
    /\ fs[restore_dictionary_path] # Absent
    /\ dictionaries' = fs[restore_dictionary_path]
    /\ rpc' = "loaded"
    /\ UNCHANGED <<fs, vocab_to_int, int_to_vocab, tpc, save_runs, epochs, epoch, written>>
    /\ UNCHANGED model
    /\ UNCHANGED restOfFiles

\* open() of a file that is not there
RestoreVocabularyFails ==
    /\ rpc = "start"
    /\ fs[restore_dictionary_path] = Absent
    /\ rpc' = "FileNotFoundError"
    /\ UNCHANGED <<fs, vocab_to_int, int_to_vocab, tpc, save_runs, epochs, epoch, written, dictionaries>>
    /\ UNCHANGED model
    /\ UNCHANGED restOfFiles

\* restore notebook: saver.restore(sess, model_path)
RestoreCheckpoint ==
    /\ rpc = "loaded"
    /\ fs[model_path] # Absent
    /\ rpc' = "restored"
    /\ UNCHANGED <<fs, vocab_to_int, int_to_vocab, tpc, save_runs, epochs, epoch, written, dictionaries>>
    /\ UNCHANGED model
    /\ UNCHANGED restOfFiles

\* saver.restore of a checkpoint that is not there
RestoreCheckpointFails ==
    /\ rpc = "loaded"
    /\ fs[model_path] = Absent
    /\ rpc' = "NotFoundError"
    /\ UNCHANGED <<fs, vocab_to_int, int_to_vocab, tpc, save_runs, epochs, epoch, written, dictionaries>>
    /\ UNCHANGED model
    /\ UNCHANGED restOfFiles

InitFiles ==
    /\ VocabIdle
    /\ TrainIdle
    /\ BatchesIdle
    /\ SubIdle
    /\ LookupIdle
    /\ fs \in [Paths -> {Absent, Stale}]
    /\ \E v \in Vocabularies :
          /\ vocab_to_int = v.v2i
          /\ int_to_vocab = v.i2v
    /\ tpc = "save"
    /\ save_runs = 0
    /\ epochs \in 1..MaxEpochs
    /\ epoch = 1
    /\ written = {}
    /\ rpc = "idle"
    /\ dictionaries = <<>>
    /\ model = <<>>

NextFiles ==
    \/ SaveVocabulary
    \/ BuildModel
    \/ TrainCall
    \/ SaveCheckpoint
    \/ TrainReturn
    \/ RestoreVocabulary
    \/ RestoreVocabularyFails
    \/ RestoreCheckpoint
    \/ RestoreCheckpointFails

SpecFiles == InitFiles /\ [][NextFiles]_vars

\* ------------------------------------------------ properties of the artifacts
\* C5: once the save-vocabulary cell has run, whatever was on disk before and
\* however often it has run, the artifact exists at dictionary_path and holds
\* the current vocab_to_int, int_to_vocab, embed_dim and num_sampled.
C5_ArtifactPresentAfterSave ==
    (tpc = "save" /\ save_runs >= 1) => fs[dictionary_path] = to_save

\* C6: every path the restore notebook reads (pickled vocabulary, checkpoint)
\* is a path a completed run of the training notebook has written.
C6_RestoreReadsWhatTrainingWrote ==
    tpc = "trained" => {restore_dictionary_path, model_path} \subseteq written

\* C13: the embedding dimension and sample count stored in the vocabulary
\* artifact (and used in the artifact and checkpoint names) are the values the
\* trained model was built with.
C13_ArtifactHyperparametersAreTheModels ==
    (tpc \in {"train", "trained"} /\ dictionary_path \in written
            /\ fs[dictionary_path] # Absent) =>
        /\ fs[dictionary_path].embed_dim = model.embed_dim
        /\ fs[dictionary_path].num_sampled = model.num_sampled

\* ------------------------------------------------------------- vocabulary
\* the words a corpus is made of
CorpusWords == {"a", "b", "c"}

\* the distinct words of the corpus, most frequent first; words of equal
\* frequency come in an order the sort decides
SortedVocab(ws) ==
    {q \in ListOf(SetOf(ws)) :
        \A a, b \in DOMAIN q :
            a < b => Cardinality({k \in DOMAIN ws : ws[k] = q[a]})
                        >= Cardinality({k \in DOMAIN ws : ws[k] = q[b]})}

\* the encoding run over set(words) instead of words
Encode_of_set(ws, v2i) ==
    LET u == CHOOSE q \in ListOf(SetOf(ws)) : TRUE
    IN  [k \in DOMAIN u |-> v2i[u[k]]]

\* [vocab_to_int[w] for w in words]
Encode(ws, v2i) == [k \in DOMAIN ws |-> v2i[ws[k]]]

\* vocab_to_int, int_to_vocab = text_utils.create_lookup_tables(words)
CreateLookupTables ==
    /\ vpc = "start"
    /\ \E sorted_vocab \in SortedVocab(text_words) :
          /\ int_to_vocab' = [ii \in 0..(Len(sorted_vocab) - 1) |-> sorted_vocab[ii + 1]]
          /\ vocab_to_int' =
                [w \in SetOf(text_words) |->
                    (CHOOSE k \in DOMAIN sorted_vocab : sorted_vocab[k] = w) - 1]
    /\ vpc' = "tables"
    /\ UNCHANGED <<text_words, int_words>>
    /\ UNCHANGED <<threshold, spc, words_count, freqs, p_drop, pos, out, visit>>
    /\ UNCHANGED <<fs, tpc, save_runs, epochs, epoch, written, rpc, dictionaries, model>>
    /\ UNCHANGED <<batchVars, lookVars, trainVars>>

\* int_words = [vocab_to_int[w] for w in words]
EncodeWords ==
    /\ vpc = "tables"
    /\ int_words' = Encode(text_words, vocab_to_int)
    /\ vpc' = "encoded"
    /\ UNCHANGED <<text_words, vocab_to_int, int_to_vocab>>
    /\ UNCHANGED <<threshold, spc, words_count, freqs, p_drop, pos, out, visit>>
    /\ UNCHANGED <<fs, tpc, save_runs, epochs, epoch, written, rpc, dictionaries, model>>
    /\ UNCHANGED <<batchVars, lookVars, trainVars>>

InitVocab ==
    /\ TrainIdle
    /\ BatchesIdle
    /\ SubIdle
    /\ LookupIdle
    /\ FilesIdle
    /\ text_words \in SeqsUpTo(CorpusWords, MaxLen) \ {<<>>}
    /\ vpc = "start"

NextVocab ==
    \/ CreateLookupTables
    \/ EncodeWords

SpecVocab == InitVocab /\ [][NextVocab]_vars

\* C14: for a non-empty corpus the ids are exactly 0..|unique words|-1, with
\* no gap and no duplicate, int_to_vocab[vocab_to_int[w]] = w for every word,
\* and int_words is as long as words and decodes back to it position by
\* position.
C14_DenseIdsAndRoundTrip ==
    LET unique == SetOf(text_words)
        ids == 0..(Cardinality(unique) - 1)
    IN  /\ vpc \in {"tables", "encoded"} =>
              /\ DOMAIN vocab_to_int = unique
              /\ DOMAIN int_to_vocab = ids
              /\ {vocab_to_int[w] : w \in unique} = ids
              /\ \A w \in unique : int_to_vocab[vocab_to_int[w]] = w
        /\ vpc = "encoded" =>
              /\ Len(int_words) = Len(text_words)
              /\ \A k \in DOMAIN text_words : int_to_vocab[int_words[k]] = text_words[k]

\* C14 witness: an encoded corpus of two words or more in which a word repeats
C14_Witness ==
    /\ vpc = "encoded"
    /\ Cardinality(SetOf(text_words)) >= 2
    /\ Len(text_words) > Cardinality(SetOf(text_words))

\* ------------------------------------------------------------------ train
\* def train(graph, model, epochs = 10, batch_size = 500, window_size = 10,
\*           print_every = 100, validate_every = 1000)
default_epochs == 10
default_batch_size == 500
default_print_every == 100
default_validate_every == 1000

\* "Every 50 batches it reports the training loss. Every 100 batches, it'll
\* print out the validation words."
documented_print_every == 50
documented_validate_every == 100

\* the loss a step can come back with
Losses == {1, 2}

DefaultArgs ==
    [epochs |-> default_epochs,
     batch_size |-> default_batch_size,
     print_every |-> default_print_every,
     validate_every |-> default_validate_every]

\* the calls of train: every parameter passed, only epochs passed (as the
\* notebook does), or nothing passed
TrainCalls ==
    {[passed |-> {"epochs", "batch_size", "print_every", "validate_every"}, args |-> a] :
        a \in [epochs : 1..MaxEpochs, batch_size : 1..MaxBatch,
               print_every : 1..MaxPrint, validate_every : 1..MaxValidate]}
    \cup {[passed |-> {"epochs"}, args |-> [DefaultArgs EXCEPT !.epochs = e]] :
            e \in 1..MaxEpochs}
    \cup {[passed |-> {}, args |-> DefaultArgs]}

\* the batches get_batches(train_words, batch_size, window_size) yields, by
\* index: n_batches = len(words)//batch_size of them
BatchIndices(ws, bs) == [k \in 1..(Len(ws) \div bs) |-> k]

\* an optimizer step that updates the table twice
OptimizerStep_twice(tbl) == tbl + 2

\* sess.run([..., model.optimizer]): one update of the embedding table
OptimizerStep(tbl) == tbl + 1

\* an accumulator that is left as it is after the print
ResetLoss_kept(avg) == avg

\* average_loss = 0 after the print
ResetLoss(avg) == 0

\* the last n elements of s
LastN(s, n) == IF Len(s) <= n THEN s ELSE SubSeq(s, Len(s) - n + 1, Len(s))

RECURSIVE SumSeq(_)
SumSeq(s) == IF s = <<>> THEN 0 ELSE Head(s) + SumSeq(Tail(s))

restOfTrain ==
    <<subVars, lookVars, vocabVars,
      window_size, words, bpc, idx, batch, i, x, y, calls,
      vocab_to_int, int_to_vocab, tpc, save_runs, written, rpc, dictionaries, model>>

\* train(...) is called: parameters bound, iteration = 1, average_loss = 0
TrainBegin ==
    /\ trpc = "start"
    /\ \E c \in TrainCalls :
          /\ passed' = c.passed
          /\ epochs' = c.args.epochs
          /\ batch_size' = c.args.batch_size
          /\ print_every' = c.args.print_every
          /\ validate_every' = c.args.validate_every
    /\ iteration' = 1
    /\ average_loss' = 0
    /\ epoch' = 0
    /\ trpc' = "epoch"
    /\ UNCHANGED <<train_words, fs, batches, summary, table, updates, saves, recent,
                   report, validated>>
    /\ UNCHANGED restOfTrain

\* for epoch in range(1, epochs+1): batches = get_batches(train_words, ...)
EpochBegin ==
    /\ trpc = "epoch"
    /\ epoch < epochs
    /\ epoch' = epoch + 1
    /\ batches' = BatchIndices(train_words, batch_size)
    /\ report' = <<>>
    /\ trpc' = "batches"
    /\ UNCHANGED <<train_words, batch_size, epochs, fs, passed, print_every, validate_every,
                   iteration, average_loss, summary, table, updates, saves, recent,
                   validated>>
    /\ UNCHANGED restOfTrain

\* one turn of `for x, y in batches`: the optimizer step, the accumulation,
\* the print every print_every iterations, the validation every
\* validate_every iterations, iteration += 1
TrainStep ==
    /\ trpc = "batches"
    /\ batches /= <<>>
    /\ \E batch_loss \in Losses :
          LET total == average_loss + batch_loss
          IN  /\ recent' = LastN(Append(recent, batch_loss), print_every)
              /\ IF iteration % print_every = 0
                    THEN /\ report' = [iteration |-> iteration, total |-> total,
                                       per |-> print_every]
                         /\ average_loss' = ResetLoss(total)
                    ELSE /\ report' = <<>>
                         /\ average_loss' = total
    /\ summary' = <<epoch, Head(batches)>>
    /\ table' = OptimizerStep(table)
    /\ updates' = Append(updates, <<epoch, Head(batches)>>)
    /\ validated' =
          IF iteration % validate_every = 0
             THEN Append(validated, [iteration |-> iteration, table |-> table'])
             ELSE validated
    /\ iteration' = iteration + 1
    /\ batches' = Tail(batches)
    /\ UNCHANGED <<train_words, batch_size, epochs, epoch, fs, passed, print_every,
                   validate_every, saves, trpc>>
    /\ UNCHANGED restOfTrain

\* the batches of the epoch are exhausted: saver.save(sess, <path of the
\* epoch>), then train_writer.add_summary(summary, epoch)
EpochEnd ==
    /\ trpc = "batches"
    /\ batches = <<>>
    /\ summary /= <<>>
    /\ fs' = [fs EXCEPT ![CheckpointPath(epoch)] =
                [checkpoint_of_epoch |-> epoch, table |-> table]]
    /\ saves' = Append(saves, <<epoch, table>>)
    /\ report' = <<>>
    /\ trpc' = "epoch"
    /\ UNCHANGED <<train_words, batch_size, epochs, epoch, passed, print_every,
                   validate_every, iteration, average_loss, batches, summary, table,
                   updates, recent, validated>>
    /\ UNCHANGED restOfTrain

\* the same with no batch run so far: saver.save succeeds, then
\* add_summary(summary, epoch) reads the local `summary` that was never
\* assigned and train ends with UnboundLocalError
EpochEndFails ==
    /\ trpc = "batches"
    /\ batches = <<>>
    /\ summary = <<>>
    /\ fs' = [fs EXCEPT ![CheckpointPath(epoch)] =
                [checkpoint_of_epoch |-> epoch, table |-> table]]
    /\ saves' = Append(saves, <<epoch, table>>)
    /\ report' = <<>>
    /\ trpc' = "failed"
    /\ UNCHANGED <<train_words, batch_size, epochs, epoch, passed, print_every,
                   validate_every, iteration, average_loss, batches, summary, table,
                   updates, recent, validated>>
    /\ UNCHANGED restOfTrain

\* range(1, epochs+1) is exhausted: train ends
TrainEnd ==
    /\ trpc = "epoch"
    /\ epoch >= epochs
    /\ trpc' = "done"
    /\ UNCHANGED <<train_words, batch_size, epochs, epoch, fs, passed, print_every,
                   validate_every, iteration, average_loss, batches, summary, table,
                   updates, saves, recent, report, validated>>
    /\ UNCHANGED restOfTrain

InitTrain ==
    /\ SubIdle
    /\ LookupIdle
    /\ VocabIdle
    /\ train_words \in {Repeat(0, n) : n \in 0..MaxLen}
    /\ batch_size = 1
    /\ window_size = 1
    /\ words = <<>>
    /\ bpc = "idle"
    /\ idx = 0
    /\ batch = <<>>
    /\ i = 0
    /\ x = <<>>
    /\ y = <<>>
    /\ calls = <<>>
    /\ fs = [p \in Paths |-> Absent]
    /\ vocab_to_int = <<>>
    /\ int_to_vocab = <<>>
    /\ tpc = "idle"
    /\ save_runs = 0
    /\ epochs = 1
    /\ epoch = 1
    /\ written = {}
    /\ rpc = "idle"
    /\ dictionaries = <<>>
    /\ model = <<>>
    /\ trpc = "start"
    /\ passed = {}
    /\ print_every = 1
    /\ validate_every = 1
    /\ iteration = 1
    /\ average_loss = 0
    /\ batches = <<>>
    /\ summary = <<>>
    /\ table = 0
    /\ updates = <<>>
    /\ saves = <<>>
    /\ recent = <<>>
    /\ report = <<>>
    /\ validated = <<>>

NextTrain ==
    \/ TrainBegin
    \/ EpochBegin
    \/ TrainStep
    \/ EpochEnd
    \/ EpochEndFails
    \/ TrainEnd

SpecTrain == InitTrain /\ [][NextTrain]_vars

\* batches per epoch of the running call
BatchesPerEpoch == Len(train_words) \div batch_size

\* C12: the optimizer step runs once for every batch, in batch-index order
\* within each epoch, every epoch starting again from the first batch, E*n
\* times in all; the table changes by these steps only, so a validation
\* reads it and leaves it as it is.
C12_OneUpdatePerBatchInOrder ==
    trpc \in {"epoch", "batches", "done", "failed"} =>
        /\ table = Len(updates)
        /\ \A k \in DOMAIN updates :
              updates[k] = <<((k - 1) \div BatchesPerEpoch) + 1,
                             ((k - 1) % BatchesPerEpoch) + 1>>
        /\ \A k \in DOMAIN validated : validated[k].table = validated[k].iteration
        /\ trpc = "done" => Len(updates) = epochs * BatchesPerEpoch

\* C12 witness: a finished run of two epochs or more, two batches or more
\* each, in which a validation took place
C12_Witness ==
    /\ trpc = "done"
    /\ epochs >= 2
    /\ BatchesPerEpoch >= 2
    /\ validated /= <<>>

\* C16: a call that leaves print_every and validate_every at their defaults
\* reports the loss every 50 batches and validates every 100 batches.
C16_DefaultsAreFiftyAndHundred ==
    (trpc /= "start" /\ "print_every" \notin passed /\ "validate_every" \notin passed) =>
        /\ print_every = documented_print_every
        /\ validate_every = documented_validate_every

\* C17: every epoch saves one checkpoint, after its last step and before the
\* next epoch's first, each to its own path; after the last epoch the
\* checkpoint holds the table with every step applied; an epoch without
\* batches does the same and train does not fail.
C17_OneCheckpointPerEpochNoFailure ==
    trpc /= "start" =>
        /\ trpc /= "failed"
        /\ \A k \in DOMAIN saves : saves[k] = <<k, k * BatchesPerEpoch>>
        /\ trpc = "epoch" => Len(saves) = epoch
        /\ trpc = "batches" => Len(saves) = epoch - 1
        /\ trpc = "done" =>
              /\ Len(saves) = epochs
              /\ \A e \in 1..epochs :
                    fs[CheckpointPath(e)] =
                        [checkpoint_of_epoch |-> e, table |-> e * BatchesPerEpoch]

\* C19: at every print the accumulator holds the sum of the losses of exactly
\* the last print_every batches, across epoch boundaries too.
C19_PrintedSumIsLastPrintEvery ==
    report /= <<>> =>
        /\ Len(recent) = print_every
        /\ report.total = SumSeq(recent)

\* C19 witness: a print, not the first one, whose print_every batches lie in
\* two epochs
C19_Witness ==
    /\ report /= <<>>
    /\ report.iteration > print_every
    /\ epoch >= 2
    /\ summary[2] < print_every

====
